---- MODULE Spec2Model ----
(***************************************************************************)
(* Wallet ledger and booking-acceptance protocol of the rental marketplace. *)
(*                                                                         *)
(* The store (Firestore) holds one landlord account, the transaction log,  *)
(* the bookings and the properties.  Every browser session of the landlord *)
(* keeps its own in-memory copies (userData from AuthContext, the bookings *)
(* list and the commission dialog of BookingManagement) which are loaded   *)
(* at page load and only refreshed by a reload.  Every await of a handler  *)
(* is a separate step, so handlers of different sessions interleave.       *)
(*                                                                         *)
(* Money is counted in thousandths of a currency unit, so that the 2.5%    *)
(* commission of an integer price is an integer.                           *)
(***************************************************************************)
EXTENDS Integers, Sequences, FiniteSets, TLC

\* ---------------------------------------------------------------- bounds
MaxTx == 2                       \* transactions appended in one behaviour
MaxEdits == 1                    \* property edits and deletions in one behaviour
MaxReloads == 1                  \* page reloads in one behaviour

Sessions == {"s1", "s2"}         \* browser sessions of the landlord
Bookings == {"b1", "b2"}
Requested == {"b1"}              \* the booking requests submitted before the first step
Properties == {"p1", "p2"}
Listed == {"p1"}                 \* the listings created before the first step
NoBooking == "none"
Landlord == "u1"                 \* currentUser.uid of the landlord
OtherUser == "u2"                \* another owner with transactions of their own
Actions == {"accepted", "rejected"}
NoPending == [id |-> NoBooking, action |-> "none", amount |-> 0]

\* monthly prices the property form can set (currency units): commissions
\* of 0, 1, 99 and 100, so that balances of -99 and -100 occur
Prices == {0, 40, 3960, 4000}
ListedPrice == 3960              \* the price the property is first listed at
\* amounts typed into the recharge dialog (currency units)
RechargeInputs == {0 - 1, 0, 100}

\* ------------------------------------------------------- program constants
RateNum == 25                         \* commissionRate = 0.025 = RateNum / RateDen
RateDen == 1000                       \* money is kept as a numerator over RateDen
SuspensionLimit == -100               \* newBalance <= -100 suspends
ReactivationLimit == 0                \* newBalance > 0 reactivates
Limit == 50                           \* limit(50) of the transactions query

\* bookings/{id}.propertyId: both requests are for the same listing
PropertyOf(b) == "p1"

VARIABLES
    account,        \* users/{uid}: walletBalance, accountStatus, lastTransactionDate
    transactions,   \* the transactions collection, in append order
    bookingStatus,  \* bookings/{id}.status
    properties,     \* properties/{id}: exists, pricePerMonth
    userData,       \* per session: AuthContext.userData (walletBalance, accountStatus)
    transactionData, \* per session: WalletContext.transactions, the last fetched list
    bookings,       \* per session: BookingManagement.bookings (status, rentalAmount)
    selectedBooking,
    showCommissionDialog,
    pc,             \* per session: the await the running handler is suspended at
    pending,        \* per session: the booking and action the running handler works on
    toast,          \* the toast the last step raised: none, suspended, invalid, error
    charged,        \* history: bookings a deductCommission call returned successfully for
    guardSeen,      \* history, per session: the stored accountStatus when the open dialog
                    \* passed the guard; lapsed once the confirm button was pressed
                    \* with the store suspended in the meantime
    edits,          \* history: number of property edits and deletions so far
    reloads         \* history: number of page reloads so far

storeVars == <<account, transactions, bookingStatus, properties>>
ledgerVars == <<account, transactions>>
histVars == <<charged, guardSeen, edits, reloads>>
sessionVars == <<userData, transactionData, bookings, selectedBooking, showCommissionDialog, pc, pending>>
vars == <<account, transactions, bookingStatus, properties, userData, transactionData, bookings,
          selectedBooking, showCommissionDialog, pc, pending, toast, charged, guardSeen,
          edits, reloads>>

\* ------------------------------------------------------- pure computations
\* a commission of 1% instead of 2.5%
CommissionOnePercent(rentalAmount) == rentalAmount * 10

\* part_009:84-85  commissionAmount = rentalAmount * commissionRate
CommissionAmount(rentalAmount) == rentalAmount * RateNum

\* a ledger operation that starts from the balance in the store
CurrentBalanceStored(s) == account.walletBalance

\* part_009:86  currentBalance = userData.walletBalance || 0
CurrentBalance(s) == userData[s].walletBalance

\* a reactivation rule with the non-strict comparison
ReactivatesFromZero(newBalance) == newBalance >= ReactivationLimit * RateDen

\* a suspension rule that fires for every negative balance
SuspendsBelowZero(newBalance) == newBalance < 0

\* a deduction that never suspends
SuspendsNever(newBalance) == FALSE

\* a suspension rule with the strict comparison
SuspendsStrictly(newBalance) == newBalance < SuspensionLimit * RateDen

\* part_009:107  ...(newBalance <= -100 && { accountStatus: 'suspended' })
SuspendsAt(newBalance) == newBalance <= SuspensionLimit * RateDen

\* part_009:140  ...(newBalance > 0 && { accountStatus: 'active' })
ReactivatesAt(newBalance) == newBalance > ReactivationLimit * RateDen

\* part_002:63-66  rentalAmount = propertyData?.pricePerMonth || 0
RentalAmount(b) ==
    IF properties[PropertyOf(b)].exists THEN properties[PropertyOf(b)].pricePerMonth ELSE 0

\* an amount check that only refuses an empty or zero input
ValidAmountNonZero(amount) == amount # 0

\* WalletManagement.tsx:69  if (!amount || amount <= 0) -> rejected
ValidAmount(amount) == ~(amount = 0 \/ amount <= 0)

\* a handler that runs the accept branch for both buttons
GuardAppliesAlways(action) == action \in {"accepted", "rejected"}

\* part_002:97  the guard is consulted for the accept action only
GuardApplies(action) == action = "accepted"

\* a guard that trusts checkAccountStatus alone
GuardBlocksOnRead(s, isAccountActive) == ~isAccountActive

\* part_002:99  !isAccountActive || userData?.accountStatus === 'suspended'
GuardBlocks(s, isAccountActive) ==
    ~isAccountActive \/ userData[s].accountStatus = "suspended"

\* part_009:151-165  checkAccountStatus: the stored status when the read
\* succeeds, true when the read throws
CheckAccountStatus(readOk) ==
    IF readOk THEN account.accountStatus = "active" ELSE TRUE

\* part_002:108  if (booking && booking.rentalAmount) -> commission dialog
NeedsCommission(s, b) == bookings[s][b].rentalAmount # 0

\* a catch block that logs the error and returns normally
DeductFailureSwallowed == "swallowed"

\* part_009:112-115  catch (error) { ...; throw error }
DeductFailure == "thrown"

\* ------------------------------------------------------ fetchTransactions
\* the newest document among the documents with these indexes; documents of
\* equal timestamp are ordered by document id, for which the position in
\* the collection stands
Newest(docs) ==
    CHOOSE i \in docs : \A j \in docs :
        \/ transactions[j].timestamp < transactions[i].timestamp
        \/ transactions[j].timestamp = transactions[i].timestamp /\ j <= i

\* orderBy('timestamp', 'desc'), limit(n)  (part_009:62-63)
RECURSIVE OrderByTimestampDesc(_, _)
OrderByTimestampDesc(docs, n) ==
    IF docs = {} \/ n = 0 THEN <<>>
    ELSE <<transactions[Newest(docs)]>> \o OrderByTimestampDesc(docs \ {Newest(docs)}, n - 1)

\* a query without the where clause
TransactionsQueryAllUsers(uid) ==
    OrderByTimestampDesc(1..Len(transactions), Limit)

\* query(collection(db, 'transactions'), where('userId', '==', uid),
\*       orderBy('timestamp', 'desc'), limit(50))  (part_009:59-66)
TransactionsQuery(uid) ==
    OrderByTimestampDesc({i \in 1..Len(transactions) : transactions[i].userId = uid}, Limit)

\* a fetch that adds the documents to the list it already holds
FetchedListAppended(s, docs) == transactionData[s] \o docs

\* setTransactions(transactionData)  (part_009:73): the list is replaced
FetchedList(s, docs) == docs

\* a registration that creates the wallet suspended
RegisteredSuspended(role) ==
    [walletBalance |-> 0, accountStatus |-> "suspended", lastTransactionDate |-> 0]

\* register (AuthContext.tsx:53-69): the users document of a new account;
\* the wallet fields are written for the owner role only, a document
\* without them reads as balance 0 and no status
RegisteredAccount(role) ==
    IF role = "owner"
    THEN [walletBalance |-> 0, accountStatus |-> "active", lastTransactionDate |-> 0]
    ELSE [walletBalance |-> 0, accountStatus |-> "none", lastTransactionDate |-> 0]

\* ------------------------------------------------------------------- Init
\* AuthContext.tsx:62-66: a registered landlord starts with balance 0, active.
Init ==
    /\ account = RegisteredAccount("owner")
    /\ transactions = <<>>
    /\ bookingStatus = [b \in Bookings |-> IF b \in Requested THEN "pending" ELSE "absent"]
    /\ properties = [p \in Properties |->
          IF p \in Listed THEN [exists |-> TRUE, pricePerMonth |-> ListedPrice]
                          ELSE [exists |-> FALSE, pricePerMonth |-> 0]]
    /\ userData = [s \in Sessions |-> [walletBalance |-> 0, accountStatus |-> "active"]]
    /\ transactionData = [s \in Sessions |-> TransactionsQuery(Landlord)]
    /\ bookings = [s \in Sessions |->
                     [b \in Bookings |-> [status |-> bookingStatus[b], rentalAmount |-> RentalAmount(b)]]]
    /\ selectedBooking = [s \in Sessions |-> NoBooking]
    /\ showCommissionDialog = [s \in Sessions |-> FALSE]
    /\ pc = [s \in Sessions |-> "idle"]
    /\ pending = [s \in Sessions |-> NoPending]
    /\ toast = "none"
    /\ charged = {}
    /\ guardSeen = [s \in Sessions |-> "none"]
    /\ edits = 0
    /\ reloads = 0


\* ------------------------------------------------------------ store writes
\* Timestamp.now(): the clock ticks with every appended transaction
Now == Len(transactions)

\* addDoc(collection(db, 'transactions'), {...})  part_009:91-100, 126-133
AppendTransaction(type, amount, b, newBalance) ==
    transactions' = Append(transactions,
           [userId |-> Landlord, type |-> type, amount |-> amount, bookingId |-> b,
            propertyId |-> IF b = NoBooking THEN "none" ELSE PropertyOf(b),
            timestamp |-> Now + 1, balanceAfter |-> newBalance])

\* updateDoc(doc(db, 'users', uid), {walletBalance, lastTransactionDate, accountStatus?})
\* part_009:103-108, 136-141
UpdateAccount(newBalance, status) ==
    account' = [walletBalance |-> newBalance,
                accountStatus |-> status,
                lastTransactionDate |-> Now]

\* the handlers that are between their transaction append and their return
InFlight == {s \in Sessions : pc[s] \in {"deduct_add", "deduct_update", "deduct_failed",
                                         "recharge_add", "recharge_update"}}

\* the transactions appended since the initial state (records that were in
\* the log before it carry timestamp 0)
Appended == Cardinality({i \in 1..Len(transactions) : transactions[i].timestamp > 0})

Room == Appended + Cardinality({s \in Sessions : pc[s] \in {"deduct_add", "recharge_add"}}) < MaxTx

\* fetchTransactions (part_009:54-79): the query and the state update; a
\* failing read is logged and leaves the list as it was
FetchTransactions(s) ==
    /\ pc[s] = "idle"
    /\ \E ok \in BOOLEAN :
         transactionData' = [transactionData EXCEPT ![s] =
             IF ok THEN FetchedList(s, TransactionsQuery(Landlord)) ELSE @]
    /\ UNCHANGED <<storeVars, userData, bookings, selectedBooking, showCommissionDialog,
                   pc, pending, toast, histVars>>

\* --------------------------------------------------- BookingManagement
\* handleBookingAction(bookingId, action) up to its status write
\* (part_002:94-113).  The buttons exist for a booking the session's list
\* shows as pending (part_002:265-270).  For 'accepted' the guard is
\* evaluated first, then either the commission dialog opens or the handler
\* goes on to the status write; 'rejected' goes to the status write directly.
HandleBookingAction(s, b, action) ==
    /\ pc[s] = "idle"
    /\ ~showCommissionDialog[s]
    /\ bookings[s][b].status = "pending"
    /\ \E readOk \in BOOLEAN :
         IF GuardApplies(action) /\ GuardBlocks(s, CheckAccountStatus(readOk))
         THEN /\ toast' = "suspended"
              /\ UNCHANGED <<selectedBooking, showCommissionDialog, pc, pending, guardSeen>>
         ELSE IF GuardApplies(action) /\ NeedsCommission(s, b)
         THEN /\ selectedBooking' = [selectedBooking EXCEPT ![s] = b]
              /\ showCommissionDialog' = [showCommissionDialog EXCEPT ![s] = TRUE]
              /\ guardSeen' = [guardSeen EXCEPT ![s] = account.accountStatus]
              /\ toast' = "none"
              /\ UNCHANGED <<pc, pending>>
         ELSE /\ pc' = [pc EXCEPT ![s] = "booking_update"]
              /\ pending' = [pending EXCEPT ![s] = [id |-> b, action |-> action, amount |-> 0]]
              /\ toast' = "none"
              /\ UNCHANGED <<selectedBooking, showCommissionDialog, guardSeen>>
    /\ UNCHANGED <<storeVars, userData, transactionData, bookings, charged, edits, reloads>>

\* the status write of handleBookingAction and its catch (part_002:115-135)
BookingUpdate(s) ==
    /\ pc[s] = "booking_update"
    /\ \E ok \in BOOLEAN :
         IF ok
         THEN /\ bookingStatus' = [bookingStatus EXCEPT ![pending[s].id] = pending[s].action]
              /\ bookings' = [bookings EXCEPT ![s][pending[s].id].status = pending[s].action]
              /\ toast' = "none"
         ELSE /\ UNCHANGED <<bookingStatus, bookings>>
              /\ toast' = "error"
    /\ pc' = [pc EXCEPT ![s] = "idle"]
    /\ pending' = [pending EXCEPT ![s] = NoPending]
    /\ UNCHANGED <<account, transactions, properties, userData, transactionData, selectedBooking,
                   showCommissionDialog, charged, guardSeen, edits, reloads>>

\* the dialog's cancel button: setShowCommissionDialog(false) (part_002:308)
CancelDialog(s) ==
    /\ pc[s] = "idle"
    /\ showCommissionDialog[s]
    /\ showCommissionDialog' = [showCommissionDialog EXCEPT ![s] = FALSE]
    /\ guardSeen' = [guardSeen EXCEPT ![s] = "none"]
    /\ toast' = "none"
    /\ UNCHANGED <<storeVars, userData, transactionData, bookings, selectedBooking, pc, pending, charged, edits, reloads>>

\* a warning that appears only below the threshold
PreviewWarningStrict(s) ==
    /\ showCommissionDialog[s]
    /\ selectedBooking[s] # NoBooking
    /\ userData[s].walletBalance - bookings[s][selectedBooking[s]].rentalAmount * RateNum
          < SuspensionLimit * RateDen

\* the warning box of the commission dialog (part_001:376-389):
\* ((userData?.walletBalance || 0) - (selectedBooking.rentalAmount || 0) * 0.025) <= -100
PreviewWarning(s) ==
    /\ showCommissionDialog[s]
    /\ selectedBooking[s] # NoBooking
    /\ userData[s].walletBalance - bookings[s][selectedBooking[s]].rentalAmount * RateNum
          <= SuspensionLimit * RateDen

\* confirmBookingAcceptance up to its first await (part_002:138-148)
ConfirmBookingAcceptance(s) ==
    /\ pc[s] = "idle"
    /\ showCommissionDialog[s]
    /\ selectedBooking[s] # NoBooking
    /\ Room
    /\ pending' = [pending EXCEPT ![s] =
          [id |-> selectedBooking[s], action |-> "accepted",
           amount |-> bookings[s][selectedBooking[s]].rentalAmount]]
    /\ pc' = [pc EXCEPT ![s] =
                IF NeedsCommission(s, selectedBooking[s])
                THEN "deduct_add" ELSE "confirm_update"]
    /\ guardSeen' = [guardSeen EXCEPT ![s] =
                       IF @ = "active" /\ account.accountStatus = "suspended"
                       THEN "lapsed" ELSE @]
    /\ toast' = "none"
    /\ UNCHANGED <<storeVars, userData, transactionData, bookings, selectedBooking, showCommissionDialog, charged, edits, reloads>>

\* ------------------------------------------------------- WalletContext
\* deductCommission: newBalance = currentBalance - commissionAmount, computed
\* from the session's userData before the first write (part_009:84-87)
DeductNewBalance(s) == CurrentBalance(s) - CommissionAmount(pending[s].amount)

\* deductCommission, first write: the transaction record (part_009:89-100)
DeductAdd(s) ==
    /\ pc[s] = "deduct_add"
    /\ \E ok \in BOOLEAN :
         IF ok
         THEN /\ AppendTransaction("commission", 0 - CommissionAmount(pending[s].amount),
                                   pending[s].id, DeductNewBalance(s))
              /\ pc' = [pc EXCEPT ![s] = "deduct_update"]
         ELSE /\ pc' = [pc EXCEPT ![s] = "deduct_failed"]
              /\ UNCHANGED transactions
    /\ toast' = "none"
    /\ UNCHANGED <<account, bookingStatus, properties, userData, transactionData, bookings, selectedBooking,
                   showCommissionDialog, pending, charged, guardSeen, edits, reloads>>

\* deductCommission, second write: balance, date and suspension, then the
\* refresh of the transaction list and the return (part_009:102-111)
DeductUpdate(s) ==
    /\ pc[s] = "deduct_update"
    /\ \E ok \in BOOLEAN :
         IF ok
         THEN /\ UpdateAccount(DeductNewBalance(s),
                    IF SuspendsAt(DeductNewBalance(s)) THEN "suspended" ELSE account.accountStatus)
              /\ pc' = [pc EXCEPT ![s] = "confirm_update"]
              /\ charged' = charged \cup {pending[s].id}
              /\ transactionData' = [transactionData EXCEPT ![s] =
                                        FetchedList(s, TransactionsQuery(Landlord))]
         ELSE /\ pc' = [pc EXCEPT ![s] = "deduct_failed"]
              /\ UNCHANGED <<account, charged, transactionData>>
    /\ toast' = "none"
    /\ UNCHANGED <<transactions, bookingStatus, properties, userData, bookings, selectedBooking,
                   showCommissionDialog, pending, guardSeen, edits, reloads>>

\* deductCommission's catch rethrows (part_009:112-115) and the error ends
\* confirmBookingAcceptance in its own catch (part_002:167-174): the status
\* write is skipped, the dialog stays open
DeductCatch(s) ==
    /\ pc[s] = "deduct_failed"
    /\ IF DeductFailure = "thrown"
       THEN /\ pc' = [pc EXCEPT ![s] = "idle"]
            /\ pending' = [pending EXCEPT ![s] = NoPending]
            /\ toast' = "error"
       ELSE /\ pc' = [pc EXCEPT ![s] = "confirm_update"]
            /\ toast' = "none"
            /\ UNCHANGED pending
    /\ UNCHANGED <<storeVars, userData, transactionData, bookings, selectedBooking, showCommissionDialog,
                   charged, guardSeen, edits, reloads>>

\* confirmBookingAcceptance after deductCommission returned: the status
\* write, the dialog is closed, a reload is scheduled (part_002:150-174)
ConfirmUpdate(s) ==
    /\ pc[s] = "confirm_update"
    /\ \E ok \in BOOLEAN :
         IF ok
         THEN /\ bookingStatus' = [bookingStatus EXCEPT ![pending[s].id] = "accepted"]
              /\ bookings' = [bookings EXCEPT ![s][pending[s].id].status = "accepted"]
              /\ showCommissionDialog' = [showCommissionDialog EXCEPT ![s] = FALSE]
              /\ selectedBooking' = [selectedBooking EXCEPT ![s] = NoBooking]
              /\ pc' = [pc EXCEPT ![s] = "reloading"]
              /\ toast' = "none"
         ELSE /\ UNCHANGED <<bookingStatus, bookings, showCommissionDialog, selectedBooking>>
              /\ pc' = [pc EXCEPT ![s] = "idle"]
              /\ toast' = "error"
    /\ pending' = [pending EXCEPT ![s] = NoPending]
    /\ UNCHANGED <<account, transactions, properties, userData, transactionData, charged, guardSeen, edits, reloads>>

\* handleRecharge up to the first write of rechargeWallet
\* (WalletManagement.tsx:67-80).  The dialog opens from a button that is
\* disabled while the session's userData says suspended (line 110).
HandleRecharge(s, amount) ==
    /\ pc[s] = "idle"
    /\ ~showCommissionDialog[s]
    /\ userData[s].accountStatus # "suspended"
    /\ IF ValidAmount(amount)
       THEN /\ Room
            /\ pc' = [pc EXCEPT ![s] = "recharge_add"]
            /\ pending' = [pending EXCEPT ![s] =
                             [id |-> NoBooking, action |-> "recharge", amount |-> amount]]
            /\ toast' = "none"
       ELSE /\ toast' = "invalid"
            /\ UNCHANGED <<pc, pending>>
    /\ UNCHANGED <<storeVars, userData, transactionData, bookings, selectedBooking, showCommissionDialog, charged, guardSeen, edits, reloads>>

\* rechargeWallet: newBalance = currentBalance + amount (part_009:121-122)
RechargeNewBalance(s) == CurrentBalance(s) + pending[s].amount * RateDen

\* rechargeWallet, first write (part_009:124-133); a throw ends in
\* handleRecharge's catch (WalletManagement.tsx:89-94)
RechargeAdd(s) ==
    /\ pc[s] = "recharge_add"
    /\ \E ok \in BOOLEAN :
         IF ok
         THEN /\ AppendTransaction("recharge", pending[s].amount * RateDen,
                                   NoBooking, RechargeNewBalance(s))
              /\ pc' = [pc EXCEPT ![s] = "recharge_update"]
              /\ toast' = "none"
              /\ UNCHANGED pending
         ELSE /\ pc' = [pc EXCEPT ![s] = "idle"]
              /\ pending' = [pending EXCEPT ![s] = NoPending]
              /\ toast' = "error"
              /\ UNCHANGED transactions
    /\ UNCHANGED <<account, bookingStatus, properties, userData, transactionData, bookings, selectedBooking,
                   showCommissionDialog, charged, guardSeen, edits, reloads>>

\* rechargeWallet, second write: balance, date and reactivation
\* (part_009:135-141); on success handleRecharge reloads the page
\* (WalletManagement.tsx:81-88)
RechargeUpdate(s) ==
    /\ pc[s] = "recharge_update"
    /\ \E ok \in BOOLEAN :
         IF ok
         THEN /\ UpdateAccount(RechargeNewBalance(s),
                    IF ReactivatesAt(RechargeNewBalance(s)) THEN "active" ELSE account.accountStatus)
              /\ transactionData' = [transactionData EXCEPT ![s] =
                                        FetchedList(s, TransactionsQuery(Landlord))]
              /\ pc' = [pc EXCEPT ![s] = "reloading"]
              /\ toast' = "none"
         ELSE /\ pc' = [pc EXCEPT ![s] = "idle"]
              /\ toast' = "error"
              /\ UNCHANGED <<account, transactionData>>
    /\ pending' = [pending EXCEPT ![s] = NoPending]
    /\ UNCHANGED <<transactions, bookingStatus, properties, userData, bookings, selectedBooking,
                   showCommissionDialog, charged, guardSeen, edits, reloads>>

\* ------------------------------------------------------------ page load
\* a page load: fetchUserData (AuthContext.tsx:82-101), fetchBookings
\* (part_002:46-88) and the fetchTransactions of WalletProvider's effect
\* (part_009:167-171) rebuild the session's copies from the store
PageLoad(s) ==
    /\ transactionData' = [transactionData EXCEPT ![s] =
                              FetchedList(s, TransactionsQuery(Landlord))]
    /\ userData' = [userData EXCEPT ![s] =
          [walletBalance |-> account.walletBalance, accountStatus |-> account.accountStatus]]
    /\ bookings' = [bookings EXCEPT ![s] =
          [b \in Bookings |-> [status |-> bookingStatus[b], rentalAmount |-> RentalAmount(b)]]]
    /\ selectedBooking' = [selectedBooking EXCEPT ![s] = NoBooking]
    /\ showCommissionDialog' = [showCommissionDialog EXCEPT ![s] = FALSE]
    /\ pc' = [pc EXCEPT ![s] = "idle"]
    /\ guardSeen' = [guardSeen EXCEPT ![s] = "none"]
    /\ toast' = "none"

\* the landlord opens the dashboard again in this session
\* (AuthContext.tsx:89-101 loads userData, part_002:90-92 the bookings)
Reload(s) ==
    /\ pc[s] = "idle"
    /\ reloads < MaxReloads
    /\ PageLoad(s)
    /\ reloads' = reloads + 1
    /\ UNCHANGED <<storeVars, pending, charged, edits>>

\* window.location.reload() at the end of a successful handleRecharge
\* (WalletManagement.tsx:88) and of a successful confirmBookingAcceptance
\* (part_002:166)
LocationReload(s) ==
    /\ pc[s] = "reloading"
    /\ PageLoad(s)
    /\ UNCHANGED <<storeVars, pending, charged, edits, reloads>>

\* ----------------------------------------------------------- properties
\* PropertyForm.handleSubmit for an existing property (part_000:172-220):
\* refused while the session's userData says suspended
EditProperty(s, p, price) ==
    /\ pc[s] = "idle"
    /\ userData[s].accountStatus # "suspended"
    /\ properties[p].exists
    /\ properties[p].pricePerMonth # price
    /\ properties' = [properties EXCEPT ![p].pricePerMonth = price]
    /\ edits < MaxEdits
    /\ edits' = edits + 1
    /\ toast' = "none"
    /\ UNCHANGED <<account, transactions, bookingStatus, sessionVars, charged, guardSeen, reloads>>

\* PropertyForm.handleSubmit for a new property (part_000:172-192, 221-240):
\* refused while the session's userData says suspended; the form opens from
\* a button disabled under the same condition (part_003:87-93); addDoc
\* creates the record under a fresh id
CreateProperty(s, p, price) ==
    /\ pc[s] = "idle"
    /\ p \notin Listed
    /\ ~properties[p].exists
    /\ edits < MaxEdits
    /\ IF userData[s].accountStatus = "suspended"
       THEN /\ toast' = "suspended"
            /\ UNCHANGED <<properties, edits>>
       ELSE /\ properties' = [properties EXCEPT ![p] = [exists |-> TRUE, pricePerMonth |-> price]]
            /\ edits' = edits + 1
            /\ toast' = "none"
    /\ UNCHANGED <<account, transactions, bookingStatus, sessionVars, charged, guardSeen, reloads>>

\* handleDeleteProperty (PropertyManagement.tsx:51-69)
DeleteProperty(s, p) ==
    /\ pc[s] = "idle"
    /\ properties[p].exists
    /\ properties' = [properties EXCEPT ![p] = [exists |-> FALSE, pricePerMonth |-> 0]]
    /\ edits < MaxEdits
    /\ edits' = edits + 1
    /\ toast' = "none"
    /\ UNCHANGED <<account, transactions, bookingStatus, sessionVars, charged, guardSeen, reloads>>

\* ------------------------------------------------------------------ Next
Next ==
    \/ \E s \in Sessions, b \in Bookings, action \in Actions : HandleBookingAction(s, b, action)
    \/ \E s \in Sessions : BookingUpdate(s)
    \/ \E s \in Sessions : CancelDialog(s)
    \/ \E s \in Sessions : ConfirmBookingAcceptance(s)
    \/ \E s \in Sessions : DeductAdd(s)
    \/ \E s \in Sessions : DeductUpdate(s)
    \/ \E s \in Sessions : DeductCatch(s)
    \/ \E s \in Sessions : ConfirmUpdate(s)
    \/ \E s \in Sessions, amount \in RechargeInputs : HandleRecharge(s, amount)
    \/ \E s \in Sessions : RechargeAdd(s)
    \/ \E s \in Sessions : RechargeUpdate(s)
    \/ \E s \in Sessions : Reload(s)
    \/ \E s \in Sessions : LocationReload(s)
    \/ \E s \in Sessions, p \in Properties, price \in Prices : EditProperty(s, p, price)
    \/ \E s \in Sessions, p \in Properties : DeleteProperty(s, p)

Spec == Init /\ [][Next]_vars

TypeOK ==
    /\ account.accountStatus \in {"active", "suspended"}
    /\ Appended <= MaxTx
    /\ \A b \in Bookings : bookingStatus[b] \in {"pending", "accepted", "rejected", "absent"}
    /\ \A s \in Sessions : pc[s] \in {"idle", "booking_update", "deduct_add", "deduct_update",
                                      "deduct_failed", "confirm_update", "recharge_add", "recharge_update", "reloading"}
    /\ \A s \in Sessions : guardSeen[s] \in {"none", "active", "suspended", "lapsed"}


\* ---------------------------------------------- after the first acceptance
\* A landlord who has accepted b1 at the listed price (commission 99, balance
\* -99), has then lowered the price to 40, and has both pages freshly loaded;
\* b2 is the next request for the same listing.
RelistedPrice == 40
BoundaryRecharges == {99, 100}

InitAfterFirstAcceptance ==
    /\ account = [walletBalance |-> 0 - CommissionAmount(ListedPrice),
                  accountStatus |-> "active", lastTransactionDate |-> 0]
    /\ transactions = << [userId |-> Landlord, type |-> "commission",
                          amount |-> 0 - CommissionAmount(ListedPrice),
                          bookingId |-> "b1", propertyId |-> PropertyOf("b1"), timestamp |-> 0,
                          balanceAfter |-> 0 - CommissionAmount(ListedPrice)] >>
    /\ bookingStatus = [b \in Bookings |-> IF b = "b1" THEN "accepted" ELSE "pending"]
    /\ properties = [p \in Properties |->
          IF p \in Listed THEN [exists |-> TRUE, pricePerMonth |-> RelistedPrice]
                          ELSE [exists |-> FALSE, pricePerMonth |-> 0]]
    /\ userData = [s \in Sessions |->
                     [walletBalance |-> account.walletBalance, accountStatus |-> account.accountStatus]]
    /\ transactionData = [s \in Sessions |-> TransactionsQuery(Landlord)]
    /\ bookings = [s \in Sessions |->
                     [b \in Bookings |-> [status |-> bookingStatus[b], rentalAmount |-> RentalAmount(b)]]]
    /\ selectedBooking = [s \in Sessions |-> NoBooking]
    /\ showCommissionDialog = [s \in Sessions |-> FALSE]
    /\ pc = [s \in Sessions |-> "idle"]
    /\ pending = [s \in Sessions |-> NoPending]
    /\ toast = "none"
    /\ charged = {"b1"}
    /\ guardSeen = [s \in Sessions |-> "none"]
    /\ edits = 0
    /\ reloads = 0

NextAfterFirstAcceptance ==
    \/ \E s \in Sessions, b \in Bookings, action \in Actions : HandleBookingAction(s, b, action)
    \/ \E s \in Sessions : BookingUpdate(s)
    \/ \E s \in Sessions : CancelDialog(s)
    \/ \E s \in Sessions : ConfirmBookingAcceptance(s)
    \/ \E s \in Sessions : DeductAdd(s)
    \/ \E s \in Sessions : DeductUpdate(s)
    \/ \E s \in Sessions : DeductCatch(s)
    \/ \E s \in Sessions : ConfirmUpdate(s)
    \/ \E s \in Sessions, amount \in BoundaryRecharges : HandleRecharge(s, amount)
    \/ \E s \in Sessions : RechargeAdd(s)
    \/ \E s \in Sessions : RechargeUpdate(s)
    \/ \E s \in Sessions : Reload(s)
    \/ \E s \in Sessions : LocationReload(s)

SpecAfterFirstAcceptance == InitAfterFirstAcceptance /\ [][NextAfterFirstAcceptance]_vars


\* ------------------------------------------------------- two open requests
\* A new landlord whose listing (120000 a month) has two pending requests;
\* the only price the form is given afterwards is 4000000.
FirstRent == 120000
SecondRent == 4000000
Rents == {SecondRent}

InitTwoRequests ==
    /\ account = [walletBalance |-> 0, accountStatus |-> "active", lastTransactionDate |-> 0]
    /\ transactions = <<>>
    /\ bookingStatus = [b \in Bookings |-> "pending"]
    /\ properties = [p \in Properties |->
          IF p \in Listed THEN [exists |-> TRUE, pricePerMonth |-> FirstRent]
                          ELSE [exists |-> FALSE, pricePerMonth |-> 0]]
    /\ userData = [s \in Sessions |-> [walletBalance |-> 0, accountStatus |-> "active"]]
    /\ transactionData = [s \in Sessions |-> TransactionsQuery(Landlord)]
    /\ bookings = [s \in Sessions |->
                     [b \in Bookings |-> [status |-> bookingStatus[b], rentalAmount |-> RentalAmount(b)]]]
    /\ selectedBooking = [s \in Sessions |-> NoBooking]
    /\ showCommissionDialog = [s \in Sessions |-> FALSE]
    /\ pc = [s \in Sessions |-> "idle"]
    /\ pending = [s \in Sessions |-> NoPending]
    /\ toast = "none"
    /\ charged = {}
    /\ guardSeen = [s \in Sessions |-> "none"]
    /\ edits = 0
    /\ reloads = 0

NextTwoRequests ==
    \/ \E s \in Sessions, b \in Bookings, action \in Actions : HandleBookingAction(s, b, action)
    \/ \E s \in Sessions : BookingUpdate(s)
    \/ \E s \in Sessions : CancelDialog(s)
    \/ \E s \in Sessions : ConfirmBookingAcceptance(s)
    \/ \E s \in Sessions : DeductAdd(s)
    \/ \E s \in Sessions : DeductUpdate(s)
    \/ \E s \in Sessions : DeductCatch(s)
    \/ \E s \in Sessions : ConfirmUpdate(s)
    \/ \E s \in Sessions : Reload(s)
    \/ \E s \in Sessions : LocationReload(s)
    \/ \E s \in Sessions, p \in Properties, price \in Rents : EditProperty(s, p, price)

SpecTwoRequests == InitTwoRequests /\ [][NextTwoRequests]_vars


\* --------------------------------------------------------- a new listing
\* The landlord of the two open requests may also submit the property form
\* for a new listing.
NextNewListing ==
    \/ \E s \in Sessions, b \in Bookings, action \in Actions : HandleBookingAction(s, b, action)
    \/ \E s \in Sessions : BookingUpdate(s)
    \/ \E s \in Sessions : CancelDialog(s)
    \/ \E s \in Sessions : ConfirmBookingAcceptance(s)
    \/ \E s \in Sessions : DeductAdd(s)
    \/ \E s \in Sessions : DeductUpdate(s)
    \/ \E s \in Sessions : DeductCatch(s)
    \/ \E s \in Sessions : ConfirmUpdate(s)
    \/ \E s \in Sessions : Reload(s)
    \/ \E s \in Sessions : LocationReload(s)
    \/ \E s \in Sessions, p \in Properties : CreateProperty(s, p, FirstRent)

SpecNewListing == InitTwoRequests /\ [][NextNewListing]_vars


\* ------------------------------------------------------- a long history
\* A landlord with a history of recharges of one currency unit each, and
\* possibly one transaction of another owner which is the newest document
\* of the collection.  The collection is not kept in time order: its
\* first document is the newest.
\* The pages are open and their first fetchTransactions has not returned yet.
PriorOwn == {0, 49, 50}
PriorForeign == {0, 1}
TopUps == {100}

PriorLog(own, foreign) ==
    [i \in 1..(own + foreign) |->
        [userId |-> IF i <= foreign THEN OtherUser ELSE Landlord,
         type |-> "recharge", amount |-> RateDen, bookingId |-> NoBooking,
         propertyId |-> "none", timestamp |-> 0 - i,
         balanceAfter |-> IF i <= foreign THEN RateDen ELSE (own + foreign - i + 1) * RateDen]]

InitLongHistory ==
    /\ \E own \in PriorOwn, foreign \in PriorForeign :
         /\ transactions = PriorLog(own, foreign)
         /\ account = [walletBalance |-> own * RateDen, accountStatus |-> "active",
                       lastTransactionDate |-> 0 - 1 - foreign]
    /\ bookingStatus = [b \in Bookings |-> IF b \in Requested THEN "pending" ELSE "absent"]
    /\ properties = [p \in Properties |->
          IF p \in Listed THEN [exists |-> TRUE, pricePerMonth |-> ListedPrice]
                          ELSE [exists |-> FALSE, pricePerMonth |-> 0]]
    /\ userData = [s \in Sessions |->
                     [walletBalance |-> account.walletBalance, accountStatus |-> account.accountStatus]]
    /\ transactionData = [s \in Sessions |-> <<>>]
    /\ bookings = [s \in Sessions |->
                     [b \in Bookings |-> [status |-> bookingStatus[b], rentalAmount |-> RentalAmount(b)]]]
    /\ selectedBooking = [s \in Sessions |-> NoBooking]
    /\ showCommissionDialog = [s \in Sessions |-> FALSE]
    /\ pc = [s \in Sessions |-> "idle"]
    /\ pending = [s \in Sessions |-> NoPending]
    /\ toast = "none"
    /\ charged = {}
    /\ guardSeen = [s \in Sessions |-> "none"]
    /\ edits = 0
    /\ reloads = 0

NextLongHistory ==
    \/ \E s \in Sessions : FetchTransactions(s)
    \/ \E s \in Sessions, amount \in TopUps : HandleRecharge(s, amount)
    \/ \E s \in Sessions : RechargeAdd(s)
    \/ \E s \in Sessions : RechargeUpdate(s)
    \/ \E s \in Sessions : Reload(s)
    \/ \E s \in Sessions : LocationReload(s)

SpecLongHistory == InitLongHistory /\ [][NextLongHistory]_vars


\* ------------------------------------------------------- any typed price
\* The monthly price field of the property form is a number input without
\* a minimum (part_000:307-314), stored through parseInt (part_000:206):
\* the landlord of the first specification types 4000 or -4000.
TypedPrices == {0 - 4000, 4000}

NextTypedPrices ==
    \/ \E s \in Sessions, b \in Bookings, action \in Actions : HandleBookingAction(s, b, action)
    \/ \E s \in Sessions : BookingUpdate(s)
    \/ \E s \in Sessions : CancelDialog(s)
    \/ \E s \in Sessions : ConfirmBookingAcceptance(s)
    \/ \E s \in Sessions : DeductAdd(s)
    \/ \E s \in Sessions : DeductUpdate(s)
    \/ \E s \in Sessions : DeductCatch(s)
    \/ \E s \in Sessions : ConfirmUpdate(s)
    \/ \E s \in Sessions : Reload(s)
    \/ \E s \in Sessions : LocationReload(s)
    \/ \E s \in Sessions, p \in Properties, price \in TypedPrices : EditProperty(s, p, price)

SpecTypedPrices == Init /\ [][NextTypedPrices]_vars


\* ======================================================================
\* Claims
\* ======================================================================
\* the suspension threshold of part_009:107 in the unit balances are kept in
SuspensionThreshold == SuspensionLimit * RateDen

\* C1: a booking is stored as accepted only after a deductCommission call
\* for it returned successfully, and a rejection never runs deductCommission.
C1_AcceptedOnlyAfterCommission ==
    /\ \A b \in Bookings : bookingStatus[b] = "accepted" => b \in charged
    /\ \A s \in Sessions :
         pc[s] \in {"deduct_add", "deduct_update", "deduct_failed"} => pending[s].action = "accepted"

\* C2: when a write of deductCommission throws, confirmBookingAcceptance ends
\* in its catch: the error is shown, the handler is over and the step leaves
\* every stored booking status as it was (a pending booking stays pending).
C2_FailedDeductionKeepsBooking ==
    [][\A s \in Sessions :
         (pc[s] = "deduct_failed" /\ pc'[s] # pc[s]) =>
            /\ pc'[s] = "idle"
            /\ toast' = "error"
            /\ bookingStatus' = bookingStatus]_vars

\* C2 witness: the transaction append succeeded, the account update threw,
\* the failure has been reported, and the booking is still pending behind
\* the open dialog.
C2_Witness ==
    /\ toast = "error"
    /\ bookingStatus["b1"] = "pending"
    /\ charged = {}
    /\ \A s \in Sessions : pc[s] = "idle"
    /\ \E s \in Sessions : showCommissionDialog[s] /\ selectedBooking[s] = "b1"
    /\ Len(transactions) = 1
    /\ transactions[1].type = "commission"
    /\ transactions[1].balanceAfter # account.walletBalance

\* C3: the stored accountStatus goes from active to suspended only in the
\* account write of deductCommission with a written balance <= -100, and from
\* suspended to active only in the account write of rechargeWallet with a
\* written balance > 0; no other step changes it.
C3_StatusTransitions ==
    [][/\ (account.accountStatus = "active" /\ account'.accountStatus = "suspended") =>
            /\ \E s \in Sessions : pc[s] = "deduct_update" /\ pc'[s] = "confirm_update"
            /\ account'.walletBalance <= SuspensionThreshold
       /\ (account.accountStatus = "suspended" /\ account'.accountStatus = "active") =>
            /\ \E s \in Sessions : pc[s] = "recharge_update" /\ pc'[s] = "reloading"
            /\ account'.walletBalance > 0
       /\ account'.accountStatus \in {"active", "suspended"}]_vars

\* C3 witness: an account that was suspended by a deduction and is active
\* again after a recharge.
C3_Witness ==
    /\ account.accountStatus = "active"
    /\ account.walletBalance > 0
    /\ \E i \in 1..Len(transactions) :
         /\ transactions[i].type = "commission"
         /\ transactions[i].balanceAfter <= SuspensionThreshold
    /\ \E i \in 1..Len(transactions) : transactions[i].type = "recharge"

\* C4: an accept started while the stored accountStatus is suspended aborts:
\* it neither opens the commission dialog nor goes on to the status write.
C4_SuspendedAcceptAborts ==
    [][\A s \in Sessions :
         (account.accountStatus = "suspended" /\ pc[s] = "idle" /\ ~showCommissionDialog[s]) =>
            /\ ~showCommissionDialog'[s]
            /\ ~(pc'[s] = "booking_update" /\ pending'[s].action = "accepted")]_vars

\* C5: when no ledger operation is in progress and the log is not empty, the
\* balanceAfter of the most recent transaction is the stored walletBalance.
C5_LastSnapshotIsBalance ==
    (InFlight = {} /\ transactions # <<>>) =>
        transactions[Len(transactions)].balanceAfter = account.walletBalance

\* C6: deductCommission and rechargeWallet write both records or none: an
\* operation that has appended its transaction does not end in failure.
C6_BothWritesOrNone ==
    [][\A s \in Sessions :
         /\ ~(pc[s] = "deduct_update" /\ pc'[s] = "deduct_failed")
         /\ ~(pc[s] = "recharge_update" /\ pc'[s] = "idle")]_vars

\* C7: the reject button goes straight to the status write, whatever the
\* account status and the price; the reject handler appends no transaction,
\* leaves the account record as it is, and writes nothing but 'rejected' to
\* that one booking.
C7_RejectTouchesOnlyBooking ==
    [][\A s \in Sessions :
         /\ \A b \in Bookings :
              HandleBookingAction(s, b, "rejected") =>
                 /\ pc'[s] = "booking_update"
                 /\ pending'[s] = [id |-> b, action |-> "rejected", amount |-> 0]
                 /\ ~showCommissionDialog'[s]
                 /\ UNCHANGED <<account, transactions, bookingStatus>>
         /\ (pc[s] = "booking_update" /\ pending[s].action = "rejected" /\ pc'[s] # pc[s]) =>
                 /\ pc'[s] = "idle"
                 /\ UNCHANGED <<account, transactions>>
                 /\ \A b \in Bookings :
                      bookingStatus'[b] # bookingStatus[b] =>
                          (b = pending[s].id /\ bookingStatus'[b] = "rejected")]_vars

\* C7 witness: a booking rejected while the stored account is suspended and
\* the linked property has a price.
C7_Witness ==
    /\ bookingStatus["b1"] = "rejected"
    /\ account.accountStatus = "suspended"
    /\ RentalAmount("b1") # 0
    /\ \E s \in Sessions : userData[s].accountStatus = "suspended" /\ bookings[s]["b1"].status = "rejected"

\* C8: a stored booking status that is accepted or rejected never changes.
C8_TerminalStatus ==
    [][\A b \in Bookings :
         bookingStatus[b] \in {"accepted", "rejected"} => bookingStatus'[b] = bookingStatus[b]]_vars

\* C9: a recharge with an amount <= 0 is refused before any write: the step
\* that refuses it changes nothing in the store and starts no operation, and
\* no recharge in progress and no recharge record carries an amount <= 0.
C9_InvalidAmountRejected ==
    [][/\ toast' = "invalid" => UNCHANGED <<account, transactions, bookingStatus, properties, pc, pending>>
       /\ \A s \in Sessions :
            pc'[s] \in {"recharge_add", "recharge_update"} => pending'[s].amount > 0
       /\ \A i \in 1..Len(transactions') :
            transactions'[i].type = "recharge" => transactions'[i].amount > 0]_vars

\* C9 witness: an amount <= 0 has just been refused, after an earlier
\* operation had already written to the ledger.
C9_Witness ==
    /\ toast = "invalid"
    /\ transactions # <<>>

C11_ReactivationRule ==
    [][\A s \in Sessions :
         (pc[s] = "recharge_update" /\ pc'[s] = "reloading") =>
            (account'.accountStatus = "active" <=>
                (account'.walletBalance > 0 \/ account.accountStatus = "active"))]_vars

\* C11 witness: the stored balance went from -100 (suspended) to exactly 0
\* by a recharge and the account is still suspended.
C11_Witness ==
    /\ account.accountStatus = "suspended"
    /\ account.walletBalance = 0
    /\ Len(transactions) = 3
    /\ transactions[2].type = "commission"
    /\ transactions[2].balanceAfter = SuspensionThreshold
    /\ transactions[3].type = "recharge"
    /\ transactions[3].balanceAfter = 0

\* C12: a deduction for a rent of 120000 that starts from balance 0 writes
\* a commission of 3000 and a balance of -3000 and leaves the status as it
\* was (active); a deduction for a rent of 4000000 that starts from -3000
\* writes a commission of 100000 and a balance of -103000 and the status
\* suspended.
C12_TwoAcceptances ==
    [][\A s \in Sessions :
         (pc[s] = "deduct_update" /\ pc'[s] = "confirm_update") =>
            /\ (pending[s].amount = FirstRent /\ userData[s].walletBalance = 0) =>
                  /\ account'.walletBalance = 0 - 3000 * RateDen
                  /\ account'.accountStatus = account.accountStatus
            /\ (pending[s].amount = SecondRent /\ userData[s].walletBalance = 0 - 3000 * RateDen) =>
                  /\ account'.walletBalance = 0 - 103000 * RateDen
                  /\ account'.accountStatus = "suspended"]_vars

\* C12 as the code has it: a deduction for a rent of 120000 that starts from
\* balance 0 appends a commission of 3000, writes a balance of -3000 and,
\* since -3000 <= -100, the status suspended; and no deduction ever starts
\* from a balance of -3000, because a page that has loaded that balance has
\* loaded the status suspended with it and its accept is refused.
C12_FirstAcceptanceSuspends ==
    [][\A s \in Sessions :
         /\ (pc[s] = "deduct_update" /\ pc'[s] = "confirm_update"
               /\ pending[s].amount = FirstRent /\ userData[s].walletBalance = 0) =>
                  /\ account'.walletBalance = 0 - 3000 * RateDen
                  /\ account'.accountStatus = "suspended"
                  /\ \E i \in 1..Len(transactions) :
                        /\ transactions[i].amount = 0 - 3000 * RateDen
                        /\ transactions[i].balanceAfter = 0 - 3000 * RateDen
         /\ pc'[s] \in {"deduct_add", "deduct_update"} =>
                  userData'[s].walletBalance # 0 - 3000 * RateDen]_vars

\* C12 witness: the first booking accepted for a rent of 120000, one
\* commission of 3000 in the log, the account suspended at -3000, and a page
\* that has loaded this state.
C12_Witness ==
    /\ bookingStatus["b1"] = "accepted"
    /\ Len(transactions) = 1
    /\ transactions[1].amount = 0 - 3000 * RateDen
    /\ transactions[1].balanceAfter = 0 - 3000 * RateDen
    /\ account.walletBalance = 0 - 3000 * RateDen
    /\ account.accountStatus = "suspended"
    /\ \E s \in Sessions : userData[s] = [walletBalance |-> 0 - 3000 * RateDen, accountStatus |-> "suspended"]

\* C13: a recharge of a suspended account adds its amount to the stored
\* balance (-103000 + 50000 = -53000, then + 60000 = +7000) and the account
\* stays suspended until that sum is strictly positive.
C13_RechargeOfSuspended ==
    [][\A s \in Sessions :
         (pc[s] = "recharge_update" /\ pc'[s] = "reloading" /\ account.accountStatus = "suspended") =>
            /\ account'.walletBalance = account.walletBalance + pending[s].amount * RateDen
            /\ account'.accountStatus = "active" <=> account'.walletBalance > 0]_vars

\* C14: every successful deductCommission call starts from the balance the
\* previous call left: its account write lowers the stored walletBalance by
\* exactly its commission (so that N calls from 0 leave minus the sum of the
\* commissions), and the balanceAfter of the last appended transaction is
\* the balance it writes.  Stated for logs that hold commissions only.
C14_DeductionsAddUp ==
    [][\A s \in Sessions :
         (/\ pc[s] = "deduct_update" /\ pc'[s] = "confirm_update"
          /\ \A i \in 1..Len(transactions) : transactions[i].type = "commission") =>
            /\ account'.walletBalance =
                  account.walletBalance - CommissionAmount(pending[s].amount)
            /\ transactions[Len(transactions)].balanceAfter = account'.walletBalance]_vars

\* C15: checkAccountStatus reports the account as active exactly when the
\* read of the stored record succeeds and the stored accountStatus is
\* active; for every other outcome of the read it does not report active.
C15_StatusCheckReportsStore ==
    \A readOk \in BOOLEAN :
        CheckAccountStatus(readOk) <=> (readOk /\ account.accountStatus = "active")

\* C16: the rentalAmount a confirmation hands to deductCommission is the
\* linked property's pricePerMonth in the store at that moment, whatever
\* price edits happened since the booking list was loaded.
C16_RentResolvedAtAcceptance ==
    [][\A s \in Sessions :
         (pc[s] = "idle" /\ pc'[s] = "deduct_add") =>
            pending'[s].amount = RentalAmount(pending'[s].id)]_vars

\* C17: when the property of a pending booking is deleted or has no price in
\* the store, an accept with an active account goes straight to the status
\* write: no commission dialog, no deduction, the account left as it is.
C17_NoPriceNoCommission ==
    [][\A s \in Sessions :
         /\ \A b \in Bookings :
              (/\ HandleBookingAction(s, b, "accepted")
               /\ RentalAmount(b) = 0
               /\ account.accountStatus = "active"
               /\ userData[s].accountStatus = "active") =>
                  /\ pc'[s] = "booking_update"
                  /\ ~showCommissionDialog'[s]
                  /\ UNCHANGED <<account, transactions>>
         /\ (pc[s] = "idle" /\ pc'[s] = "deduct_add") => RentalAmount(pending'[s].id) # 0]_vars

C19_WritesFromPageBalance ==
    [][\A s \in Sessions :
         /\ (pc[s] = "deduct_add" /\ pc'[s] = "deduct_update") =>
               transactions'[Len(transactions')].balanceAfter =
                   userData[s].walletBalance - CommissionAmount(pending[s].amount)
         /\ (pc[s] = "deduct_update" /\ pc'[s] = "confirm_update") =>
               account'.walletBalance =
                   userData[s].walletBalance - CommissionAmount(pending[s].amount)
         /\ (pc[s] = "recharge_add" /\ pc'[s] = "recharge_update") =>
               transactions'[Len(transactions')].balanceAfter =
                   userData[s].walletBalance + pending[s].amount * RateDen
         /\ (pc[s] = "recharge_update" /\ pc'[s] = "reloading") =>
               account'.walletBalance =
                   userData[s].walletBalance + pending[s].amount * RateDen]_vars

\* C19 witness: a commission and a recharge were both completed from the
\* same starting balance 0 by two pages (both now reloading); both
\* transactions are in the log and the stored balance is the result of one
\* of them alone.
C19_Witness ==
    /\ \A s \in Sessions : pc[s] = "reloading"
    /\ Len(transactions) = 2
    /\ "b1" \in charged
    /\ \E i, j \in 1..2 :
         /\ transactions[i].type = "commission"
         /\ transactions[j].type = "recharge"
         /\ transactions[i].balanceAfter = transactions[i].amount
         /\ transactions[j].balanceAfter = transactions[j].amount
         /\ account.walletBalance \in {transactions[i].balanceAfter, transactions[j].balanceAfter}
         /\ account.walletBalance # transactions[i].amount + transactions[j].amount

\* C20: the account status is consulted once, when the accept button is
\* pressed: the commission dialog opens only for a page whose userData says
\* active, and from then on every step of the confirmation (button, both
\* ledger writes, booking status write) leaves the page's userData as it
\* was and goes ahead whatever accountStatus the store holds.
C20_GuardOnlyAtClick ==
    [][\A s \in Sessions :
         /\ (~showCommissionDialog[s] /\ showCommissionDialog'[s]) =>
               /\ userData[s].accountStatus = "active"
               /\ guardSeen'[s] = account.accountStatus
         /\ (showCommissionDialog[s] /\ pc'[s] \in {"deduct_add", "deduct_update", "confirm_update"}) =>
               /\ userData'[s] = userData[s]
               /\ userData[s].accountStatus = "active"
         /\ (guardSeen'[s] = "lapsed") =>
               /\ userData[s].accountStatus = "active"
               /\ account.accountStatus = "suspended" \/ guardSeen[s] = "lapsed"]_vars

\* C20 witness: the guard passed for b1 while the store said active, the
\* store was suspended by the acceptance of b2 before the confirm button
\* was pressed, and the confirmation still appended the commission for b1
\* and stored b1 as accepted; the account is suspended.
C20_Witness ==
    \E s \in Sessions :
        /\ guardSeen[s] = "lapsed"
        /\ pc[s] = "reloading"
        /\ bookingStatus["b1"] = "accepted"
        /\ bookingStatus["b2"] = "accepted"
        /\ account.accountStatus = "suspended"
        /\ Len(transactions) = 2
        /\ transactions[1].bookingId = "b2"
        /\ transactions[2].bookingId = "b1"
        /\ transactions[2].type = "commission"
        /\ charged = {"b1", "b2"}

\* C21: suspension is never a dead end: whenever the stored account is
\* suspended and the landlord's pages are at rest, the recharge button
\* (WalletManagement.tsx:110) is enabled on at least one of them.
C21_RechargeAvailableWhenSuspended ==
    (/\ account.accountStatus = "suspended"
     /\ \A s \in Sessions : pc[s] = "idle" /\ ~showCommissionDialog[s])
        => \E s \in Sessions : userData[s].accountStatus # "suspended"

\* C22: while the stored accountStatus is suspended no property record
\* comes into existence.
C22_NoListingWhileSuspended ==
    [][account.accountStatus = "suspended" =>
          \A p \in Properties : properties'[p].exists => properties[p].exists]_vars

\* C23: the transaction log only grows and its records never change; a
\* commission record has an amount <= 0 and a recharge record an amount > 0.
C23_AppendOnlySigned ==
    [][/\ Len(transactions') >= Len(transactions)
       /\ \A i \in 1..Len(transactions) : transactions'[i] = transactions[i]
       /\ \A i \in 1..Len(transactions') :
            /\ transactions'[i].type = "commission" => transactions'[i].amount <= 0
            /\ transactions'[i].type = "recharge" => transactions'[i].amount > 0]_vars

\* C24: every fetchTransactions that changes the page's list leaves in it only
\* transactions of the landlord, newest first by timestamp, at most 50 of
\* them, and no transaction of the landlord that is left out is newer than
\* one that is listed: with more than 50, the list is the 50 latest.
C24_NewestFiftyOfCaller ==
    [][\A s \in Sessions :
         transactionData'[s] # transactionData[s] =>
            LET list == transactionData'[s]
                own == {i \in 1..Len(transactions) : transactions[i].userId = Landlord}
            IN /\ \A k \in 1..Len(list) : list[k].userId = Landlord
               /\ \A k \in 1..Len(list) : \E i \in own : transactions[i] = list[k]
               /\ \A k \in 1..(Len(list) - 1) : list[k].timestamp > list[k + 1].timestamp
               /\ Len(list) = IF Cardinality(own) > Limit THEN Limit ELSE Cardinality(own)
               /\ \A i \in own :
                    (\A k \in 1..Len(list) : list[k] # transactions[i]) =>
                        \A k \in 1..Len(list) : transactions[i].timestamp < list[k].timestamp]_vars

\* C24 witness: the landlord has 51 transactions and another owner one, the
\* newest of the collection; a page lists exactly 50, the landlord's newest
\* first, without the landlord's oldest.
C24_Witness ==
    \E s \in Sessions :
        /\ Cardinality({i \in 1..Len(transactions) : transactions[i].userId = Landlord}) = Limit + 1
        /\ \E i \in 1..Len(transactions) : transactions[i].userId = OtherUser
        /\ Len(transactionData[s]) = Limit
        /\ transactionData[s][1].timestamp = Len(transactions)
        /\ transactionData[s][1].type = "recharge"
        /\ transactionData[s][Limit].timestamp = 0 - Limit

\* C25: a fetch changes a page's list only when the list is not what the
\* query returns for the present collection, and then makes it exactly
\* that; so of two fetches with no ledger write in between the second
\* yields the sequence of the first.  fetchTransactions itself writes
\* neither a transaction nor the account.
C25_FetchIdempotent ==
    [][\A s \in Sessions :
         /\ transactionData'[s] # transactionData[s] =>
               /\ transactionData[s] # TransactionsQuery(Landlord)
               /\ transactionData'[s] = TransactionsQuery(Landlord)
         /\ FetchTransactions(s) =>
               UNCHANGED <<account, transactions, bookingStatus, properties>>]_vars

\* C25 witness: both pages have fetched the 49 transactions of the landlord
\* from the same collection and hold the same sequence.
C25_Witness ==
    /\ Len(transactions) = Limit
    /\ transactionData["s1"] = TransactionsQuery(Landlord)
    /\ transactionData["s2"] = transactionData["s1"]
    /\ Len(transactionData["s1"]) = Limit - 1
    /\ \A s \in Sessions : pc[s] = "idle"

\* C26: the account of a registered landlord starts with balance 0 and
\* status active, and its balance and status change only in the account
\* write of deductCommission or of rechargeWallet.
C26_WalletWrittenByLedgerOnly ==
    /\ account.walletBalance = 0
    /\ account.accountStatus = "active"
    /\ [][(account'.walletBalance # account.walletBalance
             \/ account'.accountStatus # account.accountStatus) =>
               \E s \in Sessions :
                   \/ pc[s] = "deduct_update" /\ pc'[s] = "confirm_update"
                   \/ pc[s] = "recharge_update" /\ pc'[s] = "reloading"]_vars

\* C26 witness: after a commission of 99 and a recharge of 100 from a
\* reloaded page the account holds 1, is active, and the listing was
\* edited or removed in between without touching the account.
C26_Witness ==
    /\ account = [walletBalance |-> RateDen, accountStatus |-> "active", lastTransactionDate |-> 2]
    /\ edits = MaxEdits
    /\ \A s \in Sessions : pc[s] = "idle" /\ userData[s].walletBalance = RateDen

\* C27: no booking has more than one commission transaction.
C27_OneCommissionPerBooking ==
    \A i, j \in 1..Len(transactions) :
        (/\ transactions[i].type = "commission"
         /\ transactions[j].type = "commission"
         /\ transactions[i].bookingId = transactions[j].bookingId) => i = j

\* C28: when no acceptance is in progress, every commission transaction of
\* a deductCommission call that returned belongs to a booking that is
\* stored as accepted.
C28_CommissionOnlyForAccepted ==
    (\A s \in Sessions : pc[s] \in {"idle", "reloading"}) =>
        \A i \in 1..Len(transactions) :
            (transactions[i].type = "commission" /\ transactions[i].bookingId \in charged) =>
                bookingStatus[transactions[i].bookingId] = "accepted"

\* ---------------------------------------------------- one page, no failure
\* One page of the landlord of the two open requests, on which every write
\* of deductCommission and rechargeWallet succeeds and which is not
\* reloaded: the behaviour ends where a handler reloads the page.  The
\* booking status write may fail.
DeductAddOk(s) == DeductAdd(s) /\ pc'[s] = "deduct_update"
DeductUpdateOk(s) == DeductUpdate(s) /\ pc'[s] = "confirm_update"
RechargeAddOk(s) == RechargeAdd(s) /\ pc'[s] = "recharge_update"
RechargeUpdateOk(s) == RechargeUpdate(s) /\ pc'[s] = "reloading"

NextOnePage ==
    \/ \E b \in Bookings, action \in Actions : HandleBookingAction("s1", b, action)
    \/ BookingUpdate("s1")
    \/ CancelDialog("s1")
    \/ ConfirmBookingAcceptance("s1")
    \/ DeductAddOk("s1")
    \/ DeductUpdateOk("s1")
    \/ ConfirmUpdate("s1")
    \/ \E amount \in TopUps : HandleRecharge("s1", amount)
    \/ RechargeAddOk("s1")
    \/ RechargeUpdateOk("s1")
    \/ \E p \in Properties, price \in Rents : EditProperty("s1", p, price)

SpecOnePage == InitTwoRequests /\ [][NextOnePage]_vars

\* C29: on one page, with every ledger operation completing and no reload,
\* the stored balance is the balance at the start plus the amounts of the
\* transactions appended since, whenever no ledger operation is in progress.
C29_SequentialBalance ==
    pc["s1"] \in {"idle", "confirm_update", "reloading"} =>
        \/ /\ Len(transactions) = 0
           /\ account.walletBalance = 0
        \/ /\ Len(transactions) = 1
           /\ account.walletBalance = transactions[1].amount
        \/ /\ Len(transactions) = 2
           /\ account.walletBalance = transactions[1].amount + transactions[2].amount

\* C30: whenever no ledger operation is in progress, an account stored as
\* active has a stored balance above -100.
C30_ActiveAboveThreshold ==
    (InFlight = {} /\ account.accountStatus = "active") =>
        account.walletBalance > SuspensionThreshold

\* C30 witness: the acceptance of b1 has been charged and stored, the
\* balance is -99, one unit above the threshold, and the account is active.
C30_Witness ==
    /\ InFlight = {}
    /\ account.accountStatus = "active"
    /\ account.walletBalance = SuspensionThreshold + RateDen
    /\ bookingStatus["b1"] = "accepted"
    /\ charged = {"b1"}
    /\ \A s \in Sessions : pc[s] = "idle" /\ userData[s].walletBalance = account.walletBalance

====
